---- MODULE Spec2Model ----
(***************************************************************************)
(* Model of the sales ETL pipeline (scripts/extract_data.py,               *)
(* scripts/transform_data.py, scripts/load_data.py, config/db_config.py).  *)
(*                                                                         *)
(* A DataFrame is a record [columns, rows]: columns is the set of column   *)
(* names and rows a sequence of functions from columns to cells.  A cell   *)
(* is <<>> (NaN / None / NaT) or <<v>>.  Money (precio_unitario,           *)
(* total_venta) is counted in cents, descuento in hundredths, fecha in     *)
(* days, text is a sequence of one-character strings.  The passive columns *)
(* cliente_id and vendedor_id, which no step reads, are left out; id plays *)
(* their part in full-row comparisons.                                     *)
(***************************************************************************)
EXTENDS Integers, Sequences, FiniteSets, TLC

VARIABLES
    df,          \* harness: the batch handed to clean_data
    cleaned,     \* harness: what clean_data(df) gave back, or NONE
    aggregated,  \* harness: what aggregate_data(cleaned) gave back, or NONE
    derived,     \* harness: what transform_data(cleaned) gave back, or NONE
    source,          \* the source table sales_data, as SELECT * reads it
    extractedFile,   \* data/output/extracted_data.csv, or NONE
    extractLog,      \* outcome of each extract() call so far
    extractCheck,    \* what validate_extracted_data(source) gave back, or NONE
    transformedFile, \* data/output/transformed_data.csv as read_csv reads it, or NONE
    target,          \* the target table sales_transformed, or NONE
    backups,         \* the backup tables: records [name, table]
    clock,           \* datetime.now(), in seconds
    loadLog,         \* outcome of each load() call so far
    loadStats,       \* what the last load() returned, or NONE
    loadCheck,       \* what validate_data_before_load(file) gave back, or NONE
    loadFault,       \* the storage fault met by the last load() call
    prepared,        \* what prepare_data_for_load(file) gave back, or NONE
    fullFile,        \* data/output/transformed_data_full.csv, or NONE
    extractedBy,     \* the DAG run that wrote extractedFile (0: none of them)
    transformedBy,   \* the DAG run that wrote transformedFile (0: none of them)
    dagRuns,         \* the number of DAG runs created so far
    ti,              \* state of each task instance of each DAG run
    try_number,      \* attempts started of each task instance
    firstLoad,       \* per DAG run: what its first load attempt found and did
    faults           \* storage faults met so far in the DAG runs

harnessVars == <<df, cleaned, aggregated, derived>>

extractVars == <<source, extractedFile, extractLog, extractCheck>>

loadVars == <<transformedFile, target, backups, clock, loadLog, loadStats, loadCheck,
              loadFault, prepared>>

dagVars == <<fullFile, extractedBy, transformedBy, dagRuns, ti, try_number, firstLoad,
             faults>>

vars == <<df, cleaned, aggregated, derived, source, extractedFile, extractLog,
          extractCheck, transformedFile, target, backups, clock, loadLog, loadStats,
          loadCheck, loadFault, prepared, fullFile, extractedBy, transformedBy,
          dagRuns, ti, try_number, firstLoad, faults>>

----------------------------------------------------------------------------
(* Bounds *)

MaxRows == 6

MaxSrcRows == 2

MaxAggRows == 2

MaxClock == 1

MaxLoads == 2

MaxExtracts == 2

MaxDeriveRows == 3

MaxRuns == 2

MaxFaults == 2

----------------------------------------------------------------------------
(* Cells *)

NaN == <<>>

V(x) == <<x>>

isnull(c) == c = NaN

notnull(c) == c # NaN

val(c) == c[1]

NONE == [none |-> TRUE]

\* A fecha: text in the format YYYY-MM-DD ("iso") or YYYY-MM-DD HH:MM:SS
\* ("long"), text that is no date ("bad"), or a parsed datetime.
Date(fmt, day) == [fmt |-> fmt, day |-> day]

\* pd.to_datetime on a column: raises when a value cannot be parsed, NaN
\* becomes NaT.
parseable(rows, col) ==
    \A i \in 1..Len(rows) : notnull(rows[i][col]) => val(rows[i][col]).fmt # "bad"

to_datetime(rows, col) ==
    [i \in 1..Len(rows) |->
        IF isnull(rows[i][col]) THEN rows[i]
        ELSE [rows[i] EXCEPT ![col] = V(Date("datetime", val(rows[i][col]).day))]]

\* .dt.strftime('%Y-%m-%d'), and what to_csv writes for a datetime at midnight.
strftime(rows, col) ==
    [i \in 1..Len(rows) |->
        IF isnull(rows[i][col]) THEN rows[i]
        ELSE [rows[i] EXCEPT ![col] = V(Date("iso", val(rows[i][col]).day))]]

----------------------------------------------------------------------------
(* Sequence helpers *)

RECURSIVE SelectIdx(_, _, _)
SelectIdx(s, keep(_), i) ==
    IF i > Len(s) THEN <<>>
    ELSE (IF keep(i) THEN <<s[i]>> ELSE <<>>) \o SelectIdx(s, keep, i + 1)

RECURSIVE SumSeq(_)
SumSeq(s) == IF s = <<>> THEN 0 ELSE Head(s) + SumSeq(Tail(s))

RECURSIVE Insert(_, _)
Insert(x, s) ==
    IF s = <<>> THEN <<x>>
    ELSE IF x <= Head(s) THEN <<x>> \o s
    ELSE <<Head(s)>> \o Insert(x, Tail(s))

RECURSIVE SortInts(_)
SortInts(s) == IF s = <<>> THEN <<>> ELSE Insert(Head(s), SortInts(Tail(s)))

Count(s, P(_)) == Cardinality({i \in 1..Len(s) : P(s[i])})

----------------------------------------------------------------------------
(* Text: str.strip() and str.title() *)

Lowers == <<"a","b","c","d","e","f","g","h","i","j","k","l","m",
            "n","o","p","q","r","s","t","u","v","w","x","y","z">>

Uppers == <<"A","B","C","D","E","F","G","H","I","J","K","L","M",
            "N","O","P","Q","R","S","T","U","V","W","X","Y","Z">>

IsLower(c) == \E i \in 1..Len(Lowers) : Lowers[i] = c

IsUpper(c) == \E i \in 1..Len(Uppers) : Uppers[i] = c

IsCased(c) == IsLower(c) \/ IsUpper(c)

ToUpper(c) == IF IsLower(c) THEN Uppers[CHOOSE i \in 1..Len(Lowers) : Lowers[i] = c] ELSE c

ToLower(c) == IF IsUpper(c) THEN Lowers[CHOOSE i \in 1..Len(Uppers) : Uppers[i] = c] ELSE c

IsSpace(c) == c = " "

RECURSIVE LStrip(_)
LStrip(s) == IF s # <<>> /\ IsSpace(Head(s)) THEN LStrip(Tail(s)) ELSE s

RECURSIVE RStrip(_)
RStrip(s) ==
    IF s # <<>> /\ IsSpace(s[Len(s)]) THEN RStrip(SubSeq(s, 1, Len(s) - 1)) ELSE s

str_strip(s) == RStrip(LStrip(s))

str_title(s) ==
    [i \in 1..Len(s) |->
        IF i = 1 \/ ~IsCased(s[i - 1]) THEN ToUpper(s[i]) ELSE ToLower(s[i])]

----------------------------------------------------------------------------
(* clean_data, step by step *)

AllColumns == {"id", "fecha", "producto", "categoria", "region",
               "cantidad", "precio_unitario", "descuento", "total_venta"}

critical_columns == {"fecha", "producto", "cantidad", "precio_unitario"}

text_columns == {"producto", "categoria", "region"}

\* df.duplicated(): a row is marked when an earlier row equals it on every
\* column (NaN counts as equal to NaN).
duplicated(rows) == [i \in 1..Len(rows) |-> \E j \in 1..(i - 1) : rows[j] = rows[i]]

drop_duplicates(rows) ==
    LET dup == duplicated(rows)
        keep(i) == ~dup[i]
    IN  SelectIdx(rows, keep, 1)

fillna_skipped(rows, col, x) == rows

fillna(rows, col, x) ==
    [i \in 1..Len(rows) |->
        IF isnull(rows[i][col]) THEN [rows[i] EXCEPT ![col] = V(x)] ELSE rows[i]]

anynull(r, cols) == \E c \in cols : isnull(r[c])

dropna(rows, cols) ==
    LET keep(i) == ~anynull(rows[i], cols)
    IN  SelectIdx(rows, keep, 1)

\* The same with interpolation='lower'.
Quantile4_lower(values, k) ==
    LET s == SortInts(values)
        n == Len(s)
    IN  IF n = 0 THEN NaN ELSE V(4 * s[(((n - 1) * k) \div 4) + 1])

\* Series.quantile(q) for q = k/4, times 4: linear interpolation between
\* the order statistics around position (n-1)*q; NaN is skipped.  The
\* result is NaN when no value is left.
Quantile4(values, k) ==
    LET s == SortInts(values)
        n == Len(s)
        pos4 == (n - 1) * k
        lo == pos4 \div 4
        fr == pos4 % 4
    IN  IF n = 0 THEN NaN
        ELSE IF fr = 0 THEN V(4 * s[lo + 1])
        ELSE V((4 - fr) * s[lo + 1] + fr * s[lo + 2])

column_values(rows, col) ==
    LET keep(i) == notnull(rows[i][col])
        kept == SelectIdx(rows, keep, 1)
    IN  [i \in 1..Len(kept) |-> val(kept[i][col])]

\* Bounds of the fence, times 4; NaN where the quantiles are NaN.
fence(rows, column) ==
    LET Q1 == Quantile4(column_values(rows, column), 1)
        Q3 == Quantile4(column_values(rows, column), 3)
    IN  IF isnull(Q1) THEN [lower |-> NaN, upper |-> NaN]
        ELSE LET IQR == val(Q3) - val(Q1)
             IN  [lower |-> V(val(Q1) - 3 * IQR), upper |-> V(val(Q3) + 3 * IQR)]

\* Comparisons with NaN on either side are False.
lt4(c, b) == notnull(c) /\ notnull(b) /\ 4 * val(c) < val(b)

gt4(c, b) == notnull(c) /\ notnull(b) /\ 4 * val(c) > val(b)

ge4(c, b) == notnull(c) /\ notnull(b) /\ 4 * val(c) >= val(b)

le4(c, b) == notnull(c) /\ notnull(b) /\ 4 * val(c) <= val(b)

remove_outliers_no_upper(rows, column) ==
    LET f == fence(rows, column)
        isout(r) == lt4(r[column], f.lower) \/ gt4(r[column], f.upper)
        keep(i) == ge4(rows[i][column], f.lower)
    IN  [filtered |-> SelectIdx(rows, keep, 1), outliers |-> Count(rows, isout)]

remove_outliers(rows, column) ==
    LET f == fence(rows, column)
        isout(r) == lt4(r[column], f.lower) \/ gt4(r[column], f.upper)
        keep(i) == ge4(rows[i][column], f.lower) /\ le4(rows[i][column], f.upper)
    IN  [filtered |-> SelectIdx(rows, keep, 1), outliers |-> Count(rows, isout)]

normalize(rows, cols) ==
    [i \in 1..Len(rows) |->
        [c \in DOMAIN rows[i] |->
            IF c \in cols /\ notnull(rows[i][c])
            THEN V(str_title(str_strip(val(rows[i][c]))))
            ELSE rows[i][c]]]

\* A column read with no string in it is a float column, and .str on it
\* raises; an empty frame has object columns.
str_accessor_fails(d, col) ==
    /\ Len(d.rows) > 0
    /\ \A i \in 1..Len(d.rows) : isnull(d.rows[i][col])

\* The result of clean_data: the frame it returns (rows) together with the
\* counts its steps log; raised when the call ends in an exception.
CleanRaised ==
    [raised |-> TRUE, rows |-> <<>>, duplicates |-> 0, null_critical |-> 0,
     invalid_qty |-> 0, invalid_price |-> 0, outliers_removed |-> 0,
     initial_rows |-> 0]

clean_data(d) ==
    LET initial_rows == Len(d.rows)
        s1 == to_datetime(d.rows, "fecha")
        dup == duplicated(s1)
        duplicates == Cardinality({i \in 1..Len(s1) : dup[i]})
        s2 == IF duplicates > 0 THEN drop_duplicates(s1) ELSE s1
        s3 == IF "descuento" \in d.columns THEN fillna(s2, "descuento", 0) ELSE s2
        isnullcrit(r) == anynull(r, critical_columns)
        null_critical == Count(s3, isnullcrit)
        s4 == IF null_critical > 0 THEN dropna(s3, critical_columns) ELSE s3
        badqty(r) == val(r["cantidad"]) <= 0
        invalid_qty == Count(s4, badqty)
        keepqty(i) == val(s4[i]["cantidad"]) > 0
        s5 == IF invalid_qty > 0 THEN SelectIdx(s4, keepqty, 1) ELSE s4
        badprice(r) == val(r["precio_unitario"]) <= 0
        invalid_price == Count(s5, badprice)
        keepprice(i) == val(s5[i]["precio_unitario"]) > 0
        s6 == IF invalid_price > 0 THEN SelectIdx(s5, keepprice, 1) ELSE s5
        ro == IF "total_venta" \in d.columns
              THEN remove_outliers(s6, "total_venta")
              ELSE [filtered |-> s6, outliers |-> 0]
        s8 == normalize(ro.filtered, text_columns \cap d.columns)
    IN  IF \/ ~(critical_columns \subseteq d.columns)
           \/ ~parseable(d.rows, "fecha")
           \/ \E c \in text_columns \cap d.columns : str_accessor_fails(d, c)
           \/ initial_rows = 0
        THEN CleanRaised
        ELSE [raised |-> FALSE, rows |-> s8, duplicates |-> duplicates,
              null_critical |-> null_critical, invalid_qty |-> invalid_qty,
              invalid_price |-> invalid_price, outliers_removed |-> ro.outliers,
              initial_rows |-> initial_rows]

----------------------------------------------------------------------------
(* aggregate_data *)

group_keys == <<"fecha", "producto", "categoria", "region">>

agg_inputs == {"fecha", "producto", "categoria", "region", "cantidad",
               "precio_unitario", "descuento", "total_venta", "id"}

AggColumns == {"fecha", "producto", "categoria", "region", "cantidad_total",
               "precio_promedio", "descuento_promedio", "total_venta",
               "num_transacciones"}

\* Code points, to order text the way Python orders it.
Ascii == <<" ">> \o Uppers \o Lowers

Ord(c) == CHOOSE i \in 1..Len(Ascii) : Ascii[i] = c

RECURSIVE TextLess(_, _)
TextLess(a, b) ==
    IF b = <<>> THEN FALSE
    ELSE IF a = <<>> THEN TRUE
    ELSE IF Ord(Head(a)) # Ord(Head(b)) THEN Ord(Head(a)) < Ord(Head(b))
    ELSE TextLess(Tail(a), Tail(b))

KeyOf(r) == [i \in 1..4 |-> r[group_keys[i]]]

\* Lexicographic order of two keys without NaN: fecha by number, the rest
\* by text.
KeyLess(a, b) ==
    \/ val(a[1]).day < val(b[1]).day
    \/ /\ a[1] = b[1]
       /\ \/ TextLess(val(a[2]), val(b[2]))
          \/ /\ a[2] = b[2]
             /\ \/ TextLess(val(a[3]), val(b[3]))
                \/ a[3] = b[3] /\ TextLess(val(a[4]), val(b[4]))

RECURSIVE SortKeys(_)
SortKeys(S) ==
    IF S = {} THEN <<>>
    ELSE LET m == CHOOSE k \in S : \A o \in S \ {k} : KeyLess(k, o)
         IN  <<m>> \o SortKeys(S \ {m})

\* round(): to the nearest unit, a tie to the even one.
RoundDiv(num, den) ==
    LET q == num \div den
        r == num % den
    IN  IF 2 * r < den THEN q
        ELSE IF 2 * r > den THEN q + 1
        ELSE IF q % 2 = 0 THEN q ELSE q + 1

\* mean() of a column over the rows of a group, NaN skipped, rounded to
\* `scale` units per input unit.
mean_round(rows, col, scale) ==
    LET vs == column_values(rows, col)
    IN  IF Len(vs) = 0 THEN NaN ELSE V(RoundDiv(scale * SumSeq(vs), Len(vs)))

AggRaised == [raised |-> TRUE, rows |-> <<>>]

\* The same without the ratio logged at the end, which divides by len(df).
aggregate_data_no_ratio(d) ==
    LET haskey(i) == \A k \in 1..4 : notnull(d.rows[i][group_keys[k]])
        keyed == SelectIdx(d.rows, haskey, 1)
        keys == SortKeys({KeyOf(keyed[i]) : i \in 1..Len(keyed)})
        members(k) == LET ingroup(i) == KeyOf(keyed[i]) = k
                      IN  SelectIdx(keyed, ingroup, 1)
        group(k) ==
            LET g == members(k)
            IN  [fecha |-> k[1], producto |-> k[2], categoria |-> k[3],
                 region |-> k[4],
                 cantidad_total |-> V(SumSeq(column_values(g, "cantidad"))),
                 precio_promedio |-> mean_round(g, "precio_unitario", 1),
                 descuento_promedio |-> mean_round(g, "descuento", 100),
                 total_venta |-> V(RoundDiv(SumSeq(column_values(g, "total_venta")), 1)),
                 num_transacciones |-> V(Len(column_values(g, "id")))]
    IN  IF ~(agg_inputs \subseteq d.columns)
        THEN AggRaised
        ELSE [raised |-> FALSE, rows |-> [i \in 1..Len(keys) |-> group(keys[i])]]

\* groupby(...) drops the rows that have NaN in a key (dropna=True is the
\* default) and sorts the groups by key; 'count' counts the non-null ids.
aggregate_data(d) ==
    LET haskey(i) == \A k \in 1..4 : notnull(d.rows[i][group_keys[k]])
        keyed == SelectIdx(d.rows, haskey, 1)
        keys == SortKeys({KeyOf(keyed[i]) : i \in 1..Len(keyed)})
        members(k) == LET ingroup(i) == KeyOf(keyed[i]) = k
                      IN  SelectIdx(keyed, ingroup, 1)
        group(k) ==
            LET g == members(k)
            IN  [fecha |-> k[1], producto |-> k[2], categoria |-> k[3],
                 region |-> k[4],
                 cantidad_total |-> V(SumSeq(column_values(g, "cantidad"))),
                 precio_promedio |-> mean_round(g, "precio_unitario", 1),
                 descuento_promedio |-> mean_round(g, "descuento", 100),
                 total_venta |-> V(RoundDiv(SumSeq(column_values(g, "total_venta")), 1)),
                 num_transacciones |-> V(Len(column_values(g, "id")))]
    IN  IF ~(agg_inputs \subseteq d.columns) \/ Len(d.rows) = 0
        THEN AggRaised
        ELSE [raised |-> FALSE, rows |-> [i \in 1..Len(keys) |-> group(keys[i])]]

----------------------------------------------------------------------------
(* transform_data *)

derive_inputs == {"fecha", "cantidad", "precio_unitario", "descuento", "total_venta"}

derived_columns ==
    {"año", "mes", "dia", "dia_semana", "nombre_dia", "trimestre", "ingreso_bruto",
     "descuento_total", "margen", "categoria_venta", "tiene_descuento", "venta_alta"}

day_name == <<"Monday", "Tuesday", "Wednesday", "Thursday", "Friday", "Saturday", "Sunday">>

\* Day n of the model is the n-th of January 2023, a month that begins on a
\* Sunday (dayofweek 6).
dayofweek(day) == (day + 5) % 7

\* The same with the upper end of a bucket taken into it.
categorize_sale_inclusive(total) ==
    IF notnull(total) /\ val(total) <= 10000 THEN "Pequeña"
    ELSE IF notnull(total) /\ val(total) <= 50000 THEN "Mediana"
    ELSE IF notnull(total) /\ val(total) <= 100000 THEN "Grande"
    ELSE "Premium"

\* categorize_sale, on cents: a comparison with NaN is False, so a null
\* total goes through to Premium.
categorize_sale(total) ==
    IF notnull(total) /\ val(total) < 10000 THEN "Pequeña"
    ELSE IF notnull(total) /\ val(total) < 50000 THEN "Mediana"
    ELSE IF notnull(total) /\ val(total) < 100000 THEN "Grande"
    ELSE "Premium"

\* Twice the median of the values; NaN when there is none.
median2(values) ==
    LET s == SortInts(values)
        n == Len(s)
    IN  IF n = 0 THEN NaN ELSE V(s[(n + 1) \div 2] + s[(n + 2) \div 2])

DeriveRaised == [raised |-> TRUE, rows |-> <<>>]

\* transform_data: the frame it returns, or raised when a column it reads
\* is missing or fecha is no datetime column.  ingreso_bruto is in cents,
\* descuento_total in hundredths of a cent, margen in tenths of a cent.
transform_data(d) ==
    LET med == median2(column_values(d.rows, "total_venta"))
        new(r, c) ==
            LET day == r["fecha"]
                gross == IF isnull(r["cantidad"]) \/ isnull(r["precio_unitario"]) THEN NaN
                         ELSE V(val(r["cantidad"]) * val(r["precio_unitario"]))
            IN  CASE c = "año" -> IF isnull(day) THEN NaN ELSE V(2023)
                  [] c = "mes" -> IF isnull(day) THEN NaN ELSE V(1)
                  [] c = "dia" -> IF isnull(day) THEN NaN ELSE V(val(day).day)
                  [] c = "dia_semana" ->
                        IF isnull(day) THEN NaN ELSE V(dayofweek(val(day).day))
                  [] c = "nombre_dia" ->
                        IF isnull(day) THEN NaN
                        ELSE V(day_name[dayofweek(val(day).day) + 1])
                  [] c = "trimestre" -> IF isnull(day) THEN NaN ELSE V(1)
                  [] c = "ingreso_bruto" -> gross
                  [] c = "descuento_total" ->
                        IF isnull(gross) \/ isnull(r["descuento"]) THEN NaN
                        ELSE V(val(gross) * val(r["descuento"]))
                  [] c = "margen" ->
                        IF isnull(gross) \/ isnull(r["total_venta"]) THEN NaN
                        ELSE V(10 * val(r["total_venta"]) - 6 * val(gross))
                  [] c = "categoria_venta" -> V(categorize_sale(r["total_venta"]))
                  [] c = "tiene_descuento" ->
                        V(notnull(r["descuento"]) /\ val(r["descuento"]) > 0)
                  [] c = "venta_alta" ->
                        V(/\ notnull(r["total_venta"])
                          /\ notnull(med)
                          /\ 2 * val(r["total_venta"]) > val(med))
    IN  IF \/ ~(derive_inputs \subseteq d.columns)
           \/ \E i \in 1..Len(d.rows) :
                 notnull(d.rows[i]["fecha"]) /\ val(d.rows[i]["fecha"]).fmt # "datetime"
        THEN DeriveRaised
        ELSE [raised |-> FALSE,
              rows |-> [i \in 1..Len(d.rows) |->
                          [c \in d.columns \cup derived_columns |->
                              IF c \in derived_columns THEN new(d.rows[i], c)
                              ELSE d.rows[i][c]]]]

----------------------------------------------------------------------------
(* Input batches of the harness *)

Lap == <<"L", "a", "p">>

lapSp == <<" ", "l", "a", "p", " ">>

Mou == <<"M", "o", "u">>

Pc == <<"P", "c">>

Acc == <<"A", "c", "c">>

Norte == <<"N", "o">>

Sur == <<"S", "u">>

Row(id, fecha, producto, categoria, region, cantidad, precio, descuento, total) ==
    [id |-> id, fecha |-> fecha, producto |-> producto, categoria |-> categoria,
     region |-> region, cantidad |-> cantidad, precio_unitario |-> precio,
     descuento |-> descuento, total_venta |-> total]

BaseRow == Row(V(1), V(Date("iso", 1)), V(Lap), V(Pc), V(Norte), V(1), V(10000), V(0), V(10000))

\* One plain row and its variants: each differs from it in the one thing a
\* cleaning step looks at.  10000, 10500 and 100000000 cents are the 100,
\* 105 and 1,000,000 of the outlier scenario.
RowPool ==
    << BaseRow,
       [BaseRow EXCEPT !.descuento = NaN],
       [BaseRow EXCEPT !.producto = V(lapSp)],
       [BaseRow EXCEPT !.categoria = NaN],
       [BaseRow EXCEPT !.id = NaN],
       Row(V(2), V(Date("iso", 2)), V(Mou), V(Acc), V(Sur), V(2), V(5250), V(10), V(10500)),
       Row(V(3), V(Date("iso", 1)), V(Lap), V(Pc), V(Norte), V(4), V(25000000), V(0), V(100000000)),
       [BaseRow EXCEPT !.total_venta = NaN],
       [BaseRow EXCEPT !.cantidad = V(0)],
       [BaseRow EXCEPT !.precio_unitario = V(-1)],
       [BaseRow EXCEPT !.producto = NaN],
       [BaseRow EXCEPT !.cantidad = NaN],
       [BaseRow EXCEPT !.fecha = NaN] >>

RECURSIVE Picks(_, _)
\* The non-decreasing index sequences of length n over lo..Len(RowPool):
\* one batch per multiset of pool rows.
Picks(n, lo) ==
    IF n = 0 THEN {<<>>}
    ELSE UNION {{<<i>> \o s : s \in Picks(n - 1, i)} : i \in lo..Len(RowPool)}

\* The index sequences of length up to n over 1..m: one batch per sequence.
SeqsUpTo(n, m) == UNION {[1..k -> 1..m] : k \in 0..n}

Restrict(r, cols) == [c \in cols |-> r[c]]

Frame(cols, picks) ==
    [columns |-> cols, rows |-> [i \in 1..Len(picks) |-> Restrict(RowPool[picks[i]], cols)]]

\* The batches of up to max rows, with and without a descuento column.
InputFrames(max) ==
    {Frame(cols, p) : cols \in {AllColumns, AllColumns \ {"descuento"}},
                      p \in UNION {Picks(n, 1) : n \in 0..max}}

----------------------------------------------------------------------------
(* The harness: clean_data and aggregate_data called on a batch *)

IdleDag ==
    /\ fullFile = NONE
    /\ extractedBy = 0
    /\ transformedBy = 0
    /\ dagRuns = 0
    /\ ti = <<>>
    /\ try_number = <<>>
    /\ firstLoad = <<>>
    /\ faults = 0

IdleHarness ==
    /\ df = [columns |-> {}, rows |-> <<>>]
    /\ cleaned = NONE
    /\ aggregated = NONE
    /\ derived = NONE

IdleExtract ==
    /\ source = NONE
    /\ extractedFile = NONE
    /\ extractLog = <<>>
    /\ extractCheck = NONE

IdleLoad ==
    /\ transformedFile = NONE
    /\ target = NONE
    /\ backups = {}
    /\ clock = 0
    /\ loadLog = <<>>
    /\ loadStats = NONE
    /\ loadCheck = NONE
    /\ loadFault = "none"
    /\ prepared = NONE

Init ==
    /\ df \in InputFrames(MaxRows)
    /\ cleaned = NONE
    /\ aggregated = NONE
    /\ derived = NONE
    /\ IdleExtract
    /\ IdleLoad
    /\ IdleDag

CleanData ==
    /\ cleaned = NONE
    /\ cleaned' = clean_data(df)
    /\ UNCHANGED <<df, aggregated, derived, extractVars, loadVars, dagVars>>

AggregateData ==
    /\ cleaned # NONE
    /\ ~cleaned.raised
    /\ aggregated = NONE
    /\ aggregated' = aggregate_data([columns |-> df.columns, rows |-> cleaned.rows])
    /\ UNCHANGED <<df, cleaned, derived, extractVars, loadVars, dagVars>>

Next == CleanData \/ AggregateData

Spec == Init /\ [][Next]_vars

\* transform() hands the cleaned batch to transform_data.
TransformData ==
    /\ cleaned # NONE
    /\ ~cleaned.raised
    /\ derived = NONE
    /\ derived' = transform_data([columns |-> df.columns, rows |-> cleaned.rows])
    /\ UNCHANGED <<df, cleaned, aggregated, extractVars, loadVars, dagVars>>

\* Valid rows with total_venta on and next to the ends of the buckets of
\* categorize_sale: 99.99, 100, 499.99, 500, 999.99 and 1000.
DerivePool ==
    << Row(V(1), V(Date("iso", 1)), V(Lap), V(Pc), V(Norte), V(1), V(9999), V(0), V(9999)),
       BaseRow,
       Row(V(3), V(Date("iso", 2)), V(Mou), V(Acc), V(Sur), V(1), V(55554), V(10), V(49999)),
       Row(V(4), V(Date("iso", 2)), V(Mou), V(Acc), V(Sur), V(2), V(25000), V(0), V(50000)),
       Row(V(5), V(Date("iso", 2)), V(Lap), V(Pc), V(Sur), V(1), V(99999), V(0), V(99999)),
       Row(V(6), V(Date("iso", 1)), V(Lap), V(Pc), V(Sur), V(1), V(100000), V(0), V(100000)),
       [BaseRow EXCEPT !.descuento = NaN] >>

DeriveFrames ==
    {[columns |-> cols,
      rows |-> [i \in 1..Len(p) |-> Restrict(DerivePool[p[i]], cols)]] :
        cols \in {AllColumns, AllColumns \ {"descuento"}},
        p \in SeqsUpTo(MaxDeriveRows, Len(DerivePool))}

InitDerive ==
    /\ df \in DeriveFrames
    /\ cleaned = NONE
    /\ aggregated = NONE
    /\ derived = NONE
    /\ IdleExtract
    /\ IdleLoad
    /\ IdleDag

NextDerive == CleanData \/ TransformData

SpecDerive == InitDerive /\ [][NextDerive]_vars

----------------------------------------------------------------------------
(* extract_data.py *)

required_extract == {"id", "fecha", "producto", "cantidad", "precio_unitario", "total_venta"}

\* DataFrame.empty
empty(d) == d.columns = {} \/ Len(d.rows) = 0

numeric_extract == <<"cantidad", "precio_unitario", "total_venta">>

\* A cell of a numeric column that holds text which is no number ('abc'):
\* a pair, so that its length tells it from a number and from NaN.
Junk == <<0, 0>>

is_numeric_dtype(d, col) == \A i \in 1..Len(d.rows) : Len(d.rows[i][col]) < 2

\* pd.to_numeric(errors='coerce'): what is no number becomes NaN.
to_numeric(d, col) ==
    [d EXCEPT !.rows =
        [i \in 1..Len(d.rows) |->
            IF Len(d.rows[i][col]) = 2 THEN [d.rows[i] EXCEPT ![col] = NaN]
            ELSE d.rows[i]]]

RECURSIVE coerce_numeric(_, _)
\* The loop over numeric_columns, from its k-th column on.
coerce_numeric(d, k) ==
    IF k > Len(numeric_extract) THEN d
    ELSE LET col == numeric_extract[k]
         IN  IF col \in d.columns /\ ~is_numeric_dtype(d, col)
             THEN coerce_numeric(to_numeric(d, col), k + 1)
             ELSE coerce_numeric(d, k + 1)

\* The same with a failed date conversion taken for a success.
validate_extracted_data_lenient(d) ==
    [value |-> ~empty(d) /\ required_extract \subseteq d.columns,
     frame |-> coerce_numeric(
                 IF "fecha" \in d.columns /\ parseable(d.rows, "fecha")
                 THEN [d EXCEPT !.rows = to_datetime(d.rows, "fecha")] ELSE d, 1)]

\* The value returned, and the frame as the call leaves it: the date
\* conversion is assigned to the caller's frame.  The numeric conversion
\* coerces and never fails a batch.
validate_extracted_data(d) ==
    LET nonempty == ~empty(d)
        complete == required_extract \subseteq d.columns
        dated == "fecha" \in d.columns /\ parseable(d.rows, "fecha")
    IN  [value |-> nonempty /\ complete /\ dated,
         frame |-> coerce_numeric(
                     IF dated THEN [d EXCEPT !.rows = to_datetime(d.rows, "fecha")]
                     ELSE d, 1)]

\* extract_data_from_db: raises when the query fails, when the fecha column
\* it logs the range of is missing, and when that column mixes text with
\* None (min() then compares a str with a float).
extract_data_from_db_raises(src, fault) ==
    \/ fault = "db"
    \/ src = NONE
    \/ "fecha" \notin src.columns
    \/ /\ \E i \in 1..Len(src.rows) : isnull(src.rows[i]["fecha"])
       /\ \E i \in 1..Len(src.rows) : notnull(src.rows[i]["fecha"])

\* to_csv: a datetime column is written as YYYY-MM-DD.
to_csv(d) ==
    IF "fecha" \in d.columns
    THEN [d EXCEPT !.rows =
            [i \in 1..Len(d.rows) |->
                IF notnull(d.rows[i]["fecha"]) /\ val(d.rows[i]["fecha"]).fmt = "datetime"
                THEN [d.rows[i] EXCEPT !["fecha"] = V(Date("iso", val(d.rows[i]["fecha"]).day))]
                ELSE d.rows[i]]]
    ELSE d

\* extract(): the outcome and the extraction artifact after the call.
extract(src, file, fault) ==
    IF extract_data_from_db_raises(src, fault)
    THEN [outcome |-> "raised", file |-> file]
    ELSE LET v == validate_extracted_data(src)
         IN  IF ~v.value
             THEN [outcome |-> "raised", file |-> file]
             ELSE [outcome |-> "returned", file |-> to_csv(v.frame)]

ExtractFaults == {"none", "db"}

Extract ==
    /\ Len(extractLog) < MaxExtracts
    /\ \E fault \in ExtractFaults :
          LET r == extract(source, extractedFile, fault)
          IN  /\ extractedFile' = r.file
              /\ extractLog' = Append(extractLog, r.outcome)
    /\ UNCHANGED <<source, extractCheck, harnessVars, loadVars, dagVars>>

ValidateExtracted ==
    /\ extractCheck = NONE
    /\ extractCheck' = validate_extracted_data(source)
    /\ UNCHANGED <<source, extractedFile, extractLog, harnessVars, loadVars, dagVars>>

BadDateRow == [BaseRow EXCEPT !.fecha = V(Date("bad", 0))]

JunkRow == [BaseRow EXCEPT !.cantidad = Junk]

SrcPool == <<RowPool[1], RowPool[2], RowPool[6], RowPool[13], BadDateRow, JunkRow>>

\* The dates of a row written in the given text format.
InFormat(r, fmt) ==
    IF "fecha" \in DOMAIN r /\ notnull(r["fecha"]) /\ val(r["fecha"]).fmt = "iso"
    THEN [r EXCEPT !["fecha"] = V(Date(fmt, val(r["fecha"]).day))]
    ELSE r

SourceFrames ==
    {[columns |-> cols,
      rows |-> [i \in 1..Len(p) |-> InFormat(Restrict(SrcPool[p[i]], cols), fmt)]] :
        cols \in {AllColumns} \cup {AllColumns \ {c} : c \in required_extract},
        fmt \in {"iso", "long"},
        p \in SeqsUpTo(MaxSrcRows, Len(SrcPool))}

OldExtract == Frame(AllColumns, <<6>>)

InitExtract ==
    /\ IdleHarness
    /\ IdleLoad
    /\ source \in SourceFrames
    /\ extractedFile \in {NONE, OldExtract}
    /\ extractLog = <<>>
    /\ extractCheck = NONE
    /\ IdleDag

NextExtract == Extract \/ ValidateExtracted

SpecExtract == InitExtract /\ [][NextExtract]_vars

----------------------------------------------------------------------------
(* load_data.py *)

required_load == {"fecha", "producto", "categoria", "region", "cantidad_total",
                  "precio_promedio", "total_venta", "num_transacciones"}

critical_load == {"fecha", "producto", "total_venta"}

checked_numeric == {"cantidad_total", "precio_promedio", "total_venta", "num_transacciones"}

duplicate_subset == {"fecha", "producto", "categoria", "region"}

\* The same with rows that share a key failing the batch.
validate_data_before_load_unique(d) ==
    IF empty(d) THEN [raised |-> FALSE, value |-> FALSE]
    ELSE IF ~(critical_load \subseteq d.columns) \/ ~(duplicate_subset \subseteq d.columns)
    THEN [raised |-> TRUE, value |-> FALSE]
    ELSE LET complete == required_load \subseteq d.columns
             nonull == \A i \in 1..Len(d.rows) : ~anynull(d.rows[i], critical_load)
             nonneg == \A c \in checked_numeric \cap d.columns :
                          \A i \in 1..Len(d.rows) :
                              ~(notnull(d.rows[i][c]) /\ val(d.rows[i][c]) < 0)
             unique == \A i, j \in 1..Len(d.rows) :
                          i # j => \E c \in duplicate_subset : d.rows[i][c] # d.rows[j][c]
         IN  [raised |-> FALSE, value |-> complete /\ nonull /\ nonneg /\ unique]

\* validate_data_before_load: the value returned, or raised when the call
\* ends in a KeyError: df[critical_columns] and duplicated(subset=...) index
\* columns without looking whether they are there.
validate_data_before_load(d) ==
    IF empty(d) THEN [raised |-> FALSE, value |-> FALSE]
    ELSE IF ~(critical_load \subseteq d.columns) \/ ~(duplicate_subset \subseteq d.columns)
    THEN [raised |-> TRUE, value |-> FALSE]
    ELSE LET complete == required_load \subseteq d.columns
             nonull == \A i \in 1..Len(d.rows) : ~anynull(d.rows[i], critical_load)
             nonneg == \A c \in checked_numeric \cap d.columns :
                          \A i \in 1..Len(d.rows) :
                              ~(notnull(d.rows[i][c]) /\ val(d.rows[i][c]) < 0)
         IN  [raised |-> FALSE, value |-> complete /\ nonull /\ nonneg]

RECURSIVE InsertByFecha(_, _)
\* NaN sorts last; rows with equal fecha keep their order.
InsertByFecha(r, s) ==
    IF s = <<>> THEN <<r>>
    ELSE IF \/ isnull(Head(s)["fecha"])
            \/ notnull(r["fecha"]) /\ val(r["fecha"]).day < val(Head(s)["fecha"]).day
         THEN IF isnull(r["fecha"]) THEN <<Head(s)>> \o InsertByFecha(r, Tail(s))
              ELSE <<r>> \o s
         ELSE <<Head(s)>> \o InsertByFecha(r, Tail(s))

RECURSIVE sort_values_fecha(_)
sort_values_fecha(rows) ==
    IF rows = <<>> THEN <<>>
    ELSE InsertByFecha(rows[Len(rows)], sort_values_fecha(SubSeq(rows, 1, Len(rows) - 1)))

columns_to_drop == {"Unnamed: 0", "index"}

\* The same without the sort_values('fecha') of step 4.
prepare_data_for_load_unsorted(d) ==
    IF "fecha" \notin d.columns \/ ~parseable(d.rows, "fecha")
    THEN [raised |-> TRUE, frame |-> d]
    ELSE LET dated == strftime(to_datetime(d.rows, "fecha"), "fecha")
             cols == d.columns \ columns_to_drop
             kept == [i \in 1..Len(dated) |-> Restrict(dated[i], cols)]
         IN  [raised |-> FALSE, frame |-> [columns |-> cols, rows |-> kept]]

\* prepare_data_for_load: works on a copy.  The numeric columns hold numbers
\* or NaN, which to_numeric leaves as they are.
prepare_data_for_load(d) ==
    IF "fecha" \notin d.columns \/ ~parseable(d.rows, "fecha")
    THEN [raised |-> TRUE, frame |-> d]
    ELSE LET dated == strftime(to_datetime(d.rows, "fecha"), "fecha")
             cols == d.columns \ columns_to_drop
             kept == [i \in 1..Len(dated) |-> Restrict(dated[i], cols)]
         IN  [raised |-> FALSE,
              frame |-> [columns |-> cols, rows |-> sort_values_fecha(kept)]]

\* DataFrame.to_sql into a table that is absent (NONE) or there.
to_sql(table, d, if_exists) ==
    IF table = NONE \/ if_exists = "replace" THEN d
    ELSE [columns |-> table.columns, rows |-> table.rows \o d.rows]

load_to_database_appending(d, table, if_exists) == to_sql(table, d, "append")

\* load_to_database: the table after the call.
load_to_database(d, table, if_exists) == to_sql(table, d, if_exists)

\* The same with a backup table of that name dropped and made anew.
backup_existing_data_overwriting(table, bks, now, fault) ==
    IF table = NONE THEN bks
    ELSE IF fault = "backup" THEN bks
    ELSE {b \in bks : b.name # now} \cup {[name |-> now, table |-> table]}

\* The same with CREATE TABLE ... AS SELECT copying the columns only.
backup_existing_data_schema_only(table, bks, now, fault) ==
    IF table = NONE THEN bks
    ELSE IF fault = "backup" \/ \E b \in bks : b.name = now THEN bks
    ELSE bks \cup {[name |-> now, table |-> [table EXCEPT !.rows = <<>>]]}

\* backup_existing_data: the backup tables after the call.  CREATE TABLE
\* fails when a table of that name is there already (a backup made in the
\* same second) or on a storage fault; the failure is logged only.
backup_existing_data(table, bks, now, fault) ==
    IF table = NONE THEN bks
    ELSE IF fault = "backup" \/ \E b \in bks : b.name = now THEN bks
    ELSE bks \cup {[name |-> now, table |-> table]}

TopLimit == 5

\* SQL leaves the order of rows with equal ORDER BY values open: groups of
\* equal sums come as GROUP BY emits them, by ascending key, or as they
\* stand in the table.
TieOrders == {"key", "table"}

groups_of(table, col) == {table.rows[i][col] : i \in 1..Len(table.rows)}

\* SUM(total_venta) of the group.
group_total(table, col, k) ==
    LET member(i) == table.rows[i][col] = k
    IN  SumSeq(column_values(SelectIdx(table.rows, member, 1), "total_venta"))

first_row(table, col, k) ==
    CHOOSE i \in 1..Len(table.rows) :
        /\ table.rows[i][col] = k
        /\ \A j \in 1..(i - 1) : table.rows[j][col] # k

\* NULL sorts before every text.
CellLess(a, b) ==
    IF isnull(b) THEN FALSE
    ELSE IF isnull(a) THEN TRUE
    ELSE TextLess(val(a), val(b))

comes_before(table, col, ties, a, b) ==
    LET ta == group_total(table, col, a)
        tb == group_total(table, col, b)
    IN  \/ ta > tb
        \/ /\ ta = tb
           /\ IF ties = "table"
              THEN first_row(table, col, a) < first_row(table, col, b)
              ELSE CellLess(a, b)

RECURSIVE order_by_total(_, _, _, _)
\* ORDER BY total DESC over the groups ks.
order_by_total(table, col, ties, ks) ==
    IF ks = {} THEN <<>>
    ELSE LET top == CHOOSE a \in ks :
                       \A b \in ks \ {a} : comes_before(table, col, ties, a, b)
         IN  <<[key |-> top, total |-> group_total(table, col, top)]>>
                \o order_by_total(table, col, ties, ks \ {top})

\* SELECT col, SUM(total_venta) ... GROUP BY col ORDER BY total DESC LIMIT 5
top_query(table, col, ties) ==
    LET all == order_by_total(table, col, ties, groups_of(table, col))
    IN  SubSeq(all, 1, IF Len(all) < TopLimit THEN Len(all) ELSE TopLimit)

\* A query names a column the table does not have.
statistics_raise(table) ==
    ~({"total_venta", "fecha", "producto", "region"} \subseteq table.columns)

\* generate_load_statistics over the table as it stands.
generate_load_statistics(table, ties) ==
    [total_records |-> Len(table.rows),
     total_sales |-> SumSeq(column_values(table.rows, "total_venta")),
     top_products |-> top_query(table, "producto", ties),
     top_regions |-> top_query(table, "region", ties)]

LoadRaised(table, bks) ==
    [outcome |-> "raised", target |-> table, backups |-> bks, stats |-> NONE]

\* The same with the backup taken before the batch is validated.
load_backup_first(file, table, bks, now, fault, ties) ==
    LET b == backup_existing_data(table, bks, now, fault)
        v == IF file = NONE THEN [raised |-> TRUE, value |-> FALSE]
             ELSE validate_data_before_load(file)
    IN  IF v.raised \/ ~v.value \/ prepare_data_for_load(file).raised
        THEN LoadRaised(table, b)
        ELSE LET written == load_to_database(prepare_data_for_load(file).frame, table, "replace")
             IN  IF fault = "stats" \/ statistics_raise(written)
                 THEN LoadRaised(written, b)
                 ELSE [outcome |-> "returned", target |-> written, backups |-> b,
                       stats |-> generate_load_statistics(written, ties)]

\* load(): the outcome, the target table and the backup tables after the
\* call.  create_indexes changes no table and swallows its errors.
load(file, table, bks, now, fault, ties) ==
    IF file = NONE THEN LoadRaised(table, bks)
    ELSE LET v == validate_data_before_load(file)
         IN  IF v.raised \/ ~v.value THEN LoadRaised(table, bks)
             ELSE LET p == prepare_data_for_load(file)
                  IN  IF p.raised THEN LoadRaised(table, bks)
                      ELSE IF fault = "table_exists" THEN LoadRaised(table, bks)
                      ELSE LET b == backup_existing_data(table, bks, now, fault)
                               written == load_to_database(p.frame, table, "replace")
                           IN  IF fault = "stats" \/ statistics_raise(written)
                               THEN LoadRaised(written, b)
                               ELSE [outcome |-> "returned", target |-> written,
                                     backups |-> b,
                                     stats |-> generate_load_statistics(written, ties)]

LoadFaults == {"none", "table_exists", "backup", "stats"}

\* The storage faults that can strike a load of file: the database is first
\* touched after the batch has been validated and prepared.
FaultsUnder(file) ==
    IF file = NONE THEN {"none"}
    ELSE IF validate_data_before_load(file).raised THEN {"none"}
    ELSE IF ~validate_data_before_load(file).value THEN {"none"}
    ELSE IF prepare_data_for_load(file).raised THEN {"none"}
    ELSE LoadFaults

\* The orders the statistics queries may return: they run only in a load
\* that gets as far as generate_load_statistics.
TiesUnder(fault) == IF fault \in {"none", "backup"} THEN TieOrders ELSE {"key"}

Load ==
    /\ Len(loadLog) < MaxLoads
    /\ \E fault \in FaultsUnder(transformedFile) : \E ties \in TiesUnder(fault) :
          LET r == load(transformedFile, target, backups, clock, fault, ties)
          IN  /\ target' = r.target
              /\ backups' = r.backups
              /\ loadStats' = r.stats
              /\ loadLog' = Append(loadLog, r.outcome)
              /\ loadFault' = fault
    /\ UNCHANGED <<transformedFile, clock, loadCheck, prepared, harnessVars, extractVars, dagVars>>

ValidateBeforeLoad ==
    /\ loadCheck = NONE
    /\ loadLog = <<>>
    /\ clock = 0
    /\ transformedFile # NONE
    /\ loadCheck' = validate_data_before_load(transformedFile)
    /\ UNCHANGED <<transformedFile, target, backups, clock, loadLog, loadStats,
                   loadFault, prepared, harnessVars, extractVars, dagVars>>

Tick ==
    /\ clock < MaxClock
    /\ loadLog # <<>>
    /\ Len(loadLog) < MaxLoads
    /\ clock' = clock + 1
    /\ UNCHANGED <<transformedFile, target, backups, loadLog, loadStats, loadCheck,
                   loadFault, prepared, harnessVars, extractVars, dagVars>>

AggRow(fecha, producto, categoria, region, cantidad, precio, descuento, total, n) ==
    [fecha |-> fecha, producto |-> producto, categoria |-> categoria,
     region |-> region, cantidad_total |-> cantidad, precio_promedio |-> precio,
     descuento_promedio |-> descuento, total_venta |-> total,
     num_transacciones |-> n, index |-> V(0)]

AggBase ==
    AggRow(V(Date("iso", 2)), V(Lap), V(Pc), V(Norte), V(10), V(100000), V(1000),
           V(900000), V(5))

AggPool ==
    << AggBase,
       AggRow(V(Date("iso", 1)), V(Mou), V(Acc), V(Sur), V(20), V(2500), V(500),
              V(47500), V(10)),
       [AggBase EXCEPT !.cantidad_total = V(3), !.total_venta = V(300000)],
       [AggBase EXCEPT !.cantidad_total = V(-5)],
       [AggBase EXCEPT !.fecha = NaN],
       [AggBase EXCEPT !.fecha = V(Date("bad", 0))],
       [AggBase EXCEPT !.descuento_promedio = V(-500)],
       AggRow(V(Date("iso", 1)), V(Mou), V(Acc), V(Sur), V(20), V(2500), V(500),
              V(900000), V(10)) >>

AggFrame(cols, fmt, p) ==
    [columns |-> cols,
     rows |-> [i \in 1..Len(p) |-> InFormat(Restrict(AggPool[p[i]], cols), fmt)]]

\* Batches with the columns of aggregate_data, and shorter ones in the
\* other date format, with an index column more or with a column less.
AggregatedFrames ==
    {AggFrame(AggColumns, "iso", p) : p \in SeqsUpTo(MaxAggRows, Len(AggPool))}
    \cup
    {AggFrame(AggColumns, "long", p) : p \in SeqsUpTo(MaxAggRows - 1, Len(AggPool))}
    \cup
    {AggFrame(cols, "iso", p) :
        cols \in {AggColumns \cup {"index"}, AggColumns \ {"producto"},
                  AggColumns \ {"cantidad_total"}, AggColumns \ {"total_venta"}},
        p \in SeqsUpTo(MaxAggRows - 1, Len(AggPool))}

\* The target table as create_dummy_db leaves it, and as an earlier load of
\* another batch left it.
FreshTarget ==
    [columns |-> AggColumns \cup {"id", "processed_at"}, rows |-> <<>>]

LoadedTarget ==
    [columns |-> AggColumns, rows |-> <<Restrict(AggPool[2], AggColumns)>>]

InitLoad ==
    /\ IdleHarness
    /\ IdleExtract
    /\ transformedFile \in AggregatedFrames
    /\ target \in {NONE, FreshTarget, LoadedTarget}
    /\ backups = {}
    /\ clock = 0
    /\ loadLog = <<>>
    /\ loadStats = NONE
    /\ loadCheck = NONE
    /\ loadFault = "none"
    /\ prepared = NONE
    /\ IdleDag

NextLoad == Load \/ ValidateBeforeLoad \/ Tick

SpecLoad == InitLoad /\ [][NextLoad]_vars

\* prepare_data_for_load called on a batch by itself, as the tests do.
PrepareForLoad ==
    /\ prepared = NONE
    /\ transformedFile # NONE
    /\ prepared' = prepare_data_for_load(transformedFile)
    /\ UNCHANGED <<transformedFile, target, backups, clock, loadLog, loadStats,
                   loadCheck, loadFault, harnessVars, extractVars, dagVars>>

\* The batches prepare_data_for_load is called on: those of the load, and
\* the full-length ones in the other date format.
PrepareFrames ==
    AggregatedFrames
    \cup
    {AggFrame(AggColumns, "long", p) : p \in SeqsUpTo(MaxAggRows, Len(AggPool))}

InitPrepare ==
    /\ IdleHarness
    /\ IdleExtract
    /\ transformedFile \in PrepareFrames
    /\ target = NONE
    /\ backups = {}
    /\ clock = 0
    /\ loadLog = <<>>
    /\ loadStats = NONE
    /\ loadCheck = NONE
    /\ loadFault = "none"
    /\ prepared = NONE
    /\ IdleDag

NextPrepare == PrepareForLoad

SpecPrepare == InitPrepare /\ [][NextPrepare]_vars

----------------------------------------------------------------------------
(* Properties of clean_data and aggregate_data *)

Returned(r) == r # NONE /\ ~r.raised

\* C1: rows returned plus the counts the steps report as removed equal the
\* number of input rows.
C1_Conservation ==
    Returned(cleaned) =>
        Len(cleaned.rows) + cleaned.duplicates + cleaned.null_critical
          + cleaned.invalid_qty + cleaned.invalid_price + cleaned.outliers_removed
        = Len(df.rows)

\* The input rows that survive deduplication, the null purge and the
\* cantidad / precio_unitario filters, stated on the input itself.
Survives(i) ==
    /\ \A j \in 1..(i - 1) : df.rows[j] # df.rows[i]
    /\ \A c \in critical_columns : notnull(df.rows[i][c])
    /\ val(df.rows[i]["cantidad"]) > 0
    /\ val(df.rows[i]["precio_unitario"]) > 0

SurvivorTotals == column_values(SelectIdx(df.rows, Survives, 1), "total_venta")

\* C2: every returned row has Q1 - 3*IQR <= total_venta <= Q3 + 3*IQR, the
\* quartiles being those of total_venta over the rows that survived the
\* steps before the outlier filter.
C2_OutlierBound ==
    Returned(cleaned) =>
        LET Q1 == Quantile4(SurvivorTotals, 1)
            Q3 == Quantile4(SurvivorTotals, 3)
        IN  \A i \in 1..Len(cleaned.rows) :
                /\ notnull(Q1)
                /\ notnull(cleaned.rows[i]["total_venta"])
                /\ 4 * val(cleaned.rows[i]["total_venta"])
                     >= val(Q1) - 3 * (val(Q3) - val(Q1))
                /\ 4 * val(cleaned.rows[i]["total_venta"])
                     <= val(Q3) + 3 * (val(Q3) - val(Q1))

C2_Witness ==
    /\ Returned(cleaned)
    /\ cleaned.outliers_removed > 0
    /\ Len(cleaned.rows) > 0
    /\ \E i \in 1..Len(df.rows) : ~Survives(i)

\* The batch of the outlier scenario: three distinct valid rows whose
\* total_venta are 100, 105 and 1,000,000.
OutlierScenario ==
    /\ Len(df.rows) = 3
    /\ \A i \in 1..3 : Survives(i)
    /\ \A i \in 1..3 : \A c \in df.columns \ {"id"} : notnull(df.rows[i][c])
    /\ {df.rows[i]["total_venta"] : i \in 1..3} = {V(10000), V(10500), V(100000000)}

\* C3 as stated: in the outlier scenario the 1,000,000 row is dropped and
\* the other two rows are returned.
C3_ExtremeRowDropped ==
    (cleaned # NONE /\ OutlierScenario) =>
        /\ ~cleaned.raised
        /\ Len(cleaned.rows) = 2
        /\ {cleaned.rows[i]["total_venta"] : i \in 1..Len(cleaned.rows)}
             = {V(10000), V(10500)}

\* C3 amended: in the outlier scenario clean_data drops nothing; the three
\* rows are returned, the 1,000,000 row among them.
C3_ExtremeRowKept ==
    (cleaned # NONE /\ OutlierScenario) =>
        /\ ~cleaned.raised
        /\ Len(cleaned.rows) = 3
        /\ cleaned.outliers_removed = 0
        /\ {cleaned.rows[i]["total_venta"] : i \in 1..Len(cleaned.rows)}
             = {V(10000), V(10500), V(100000000)}

C3_Witness == cleaned # NONE /\ OutlierScenario

SumTotal(rows) == SumSeq(column_values(rows, "total_venta"))

\* C4: the sum of total_venta over the aggregated rows is within 0.01 per
\* group of the sum over the cleaned rows.
C4_SumPreserved ==
    (Returned(cleaned) /\ Returned(aggregated)) =>
        LET diff == SumTotal(aggregated.rows) - SumTotal(cleaned.rows)
        IN  /\ diff <= Len(aggregated.rows)
            /\ -diff <= Len(aggregated.rows)

\* What the fill and the text normalisation make of an input row.
Finished(r) ==
    LET filled == IF "descuento" \in DOMAIN r /\ isnull(r["descuento"])
                  THEN [r EXCEPT !["descuento"] = V(0)] ELSE r
    IN  [c \in DOMAIN r |->
            IF c \in text_columns /\ notnull(filled[c])
            THEN V(str_title(str_strip(val(filled[c]))))
            ELSE IF c = "fecha" /\ notnull(filled[c])
            THEN V(Date("datetime", val(filled[c]).day))
            ELSE filled[c]]

\* C9: with a descuento column in the input, every returned row is an input
\* row with a null descuento made 0, and has non-null descuento, fecha,
\* producto, cantidad and precio_unitario, cantidad > 0, precio_unitario > 0.
C9_CleanedInvariants ==
    (Returned(cleaned) /\ "descuento" \in df.columns) =>
        \A i \in 1..Len(cleaned.rows) :
            LET r == cleaned.rows[i]
            IN  /\ notnull(r["descuento"])
                /\ \A c \in critical_columns : notnull(r[c])
                /\ val(r["cantidad"]) > 0
                /\ val(r["precio_unitario"]) > 0
                /\ \E j \in 1..Len(df.rows) : r = Finished(df.rows[j])

C9_Witness ==
    /\ Returned(cleaned)
    /\ "descuento" \in df.columns
    /\ \E j \in 1..Len(df.rows) :
          /\ isnull(df.rows[j]["descuento"])
          /\ \E i \in 1..Len(cleaned.rows) :
                cleaned.rows[i] = Finished(df.rows[j]) /\ cleaned.rows[i]["descuento"] = V(0)
    /\ \E j \in 1..Len(df.rows) :
          notnull(df.rows[j]["cantidad"]) /\ val(df.rows[j]["cantidad"]) <= 0
    /\ \E j \in 1..Len(df.rows) : isnull(df.rows[j]["producto"])

\* C10: no two returned rows are equal on all columns.
C10_NoFullRowDuplicates ==
    Returned(cleaned) =>
        \A i, j \in 1..Len(cleaned.rows) : i # j => cleaned.rows[i] # cleaned.rows[j]

----------------------------------------------------------------------------
(* Properties of load() and extract() *)

Last(s) == s[Len(s)]

IsLoadStep == Len(loadLog') = Len(loadLog) + 1

IsExtractStep == Len(extractLog') = Len(extractLog) + 1

\* C5: a load that returns leaves the target table with exactly the rows of
\* the aggregated batch, and a load that returns right after a load that
\* returned leaves the table as it was: nothing appended, nothing merged.
C5_IdempotentReplace ==
    [][(IsLoadStep /\ Last(loadLog') = "returned") =>
          /\ Len(target'.rows) = Len(transformedFile.rows)
          /\ (loadLog # <<>> /\ Last(loadLog) = "returned") => target' = target]_vars

C5_Witness ==
    /\ Len(loadLog) >= 2
    /\ loadLog[Len(loadLog) - 1] = "returned"
    /\ Last(loadLog) = "returned"
    /\ Len(target.rows) = 2
    /\ Len(transformedFile.rows) = 2
    /\ backups # {}

HasNegative(d, col) ==
    /\ col \in d.columns
    /\ \E i \in 1..Len(d.rows) : notnull(d.rows[i][col]) /\ val(d.rows[i][col]) < 0

BadAggregate(d) ==
    empty(d) \/ "producto" \notin d.columns \/ HasNegative(d, "cantidad_total")

\* C6: a load of a batch that is empty, lacks producto or has a negative
\* cantidad_total raises, creates no backup table and leaves the target
\* table unchanged.
C6_LoadValidationGate ==
    [][(IsLoadStep /\ BadAggregate(transformedFile)) =>
          /\ Last(loadLog') = "raised"
          /\ target' = target
          /\ backups' = backups]_vars

C6_Witness ==
    /\ loadLog # <<>>
    /\ Last(loadLog) = "raised"
    /\ target = LoadedTarget
    /\ backups = {}
    /\ required_load \subseteq transformedFile.columns
    /\ \E i \in 1..Len(transformedFile.rows) :
          transformedFile.rows[i]["cantidad_total"] = V(-5)
    /\ \A i \in 1..Len(transformedFile.rows) :
          /\ ~anynull(transformedFile.rows[i], critical_load)
          /\ val(transformedFile.rows[i]["fecha"]).fmt # "bad"

BadSource(d) ==
    \/ empty(d)
    \/ ~(required_extract \subseteq d.columns)
    \/ "fecha" \in d.columns /\ ~parseable(d.rows, "fecha")

\* C7: for a source batch that is empty, lacks a required column or has an
\* unparseable fecha, validate_extracted_data returns False and extract()
\* raises and leaves the extraction artifact as it was.
C7_ExtractValidationGate ==
    [][BadSource(source) =>
          /\ IsExtractStep =>
                (Last(extractLog') = "raised" /\ extractedFile' = extractedFile)
          /\ extractCheck' # NONE => ~extractCheck'.value]_vars

C7_Witness ==
    /\ extractLog # <<>>
    /\ Last(extractLog) = "raised"
    /\ extractCheck # NONE
    /\ ~extractCheck.value
    /\ extractedFile = OldExtract
    /\ AllColumns \subseteq source.columns
    /\ Len(source.rows) = 2
    /\ ~parseable(source.rows, "fecha")
    /\ \A i \in 1..Len(source.rows) : notnull(source.rows[i]["fecha"])

\* C8: for a non-empty batch that lacks a required column,
\* validate_data_before_load returns False and does not raise.
C8_MissingColumnsReturnFalse ==
    (/\ loadCheck # NONE
     /\ ~empty(transformedFile)
     /\ ~(required_load \subseteq transformedFile.columns)) =>
        loadCheck = [raised |-> FALSE, value |-> FALSE]


----------------------------------------------------------------------------
(* Properties of the groups of aggregate_data *)

CleanedKeys == {KeyOf(cleaned.rows[i]) : i \in 1..Len(cleaned.rows)}

AggregatedKey(g) == <<g.fecha, g.producto, g.categoria, g.region>>

\* C11: aggregate_data returns exactly one row per distinct key of the
\* cleaned batch, keys with a null categoria or region included.
C11_OneRowPerKey ==
    (Returned(cleaned) /\ Returned(aggregated)) =>
        /\ \A i, j \in 1..Len(aggregated.rows) :
              i # j => AggregatedKey(aggregated.rows[i]) # AggregatedKey(aggregated.rows[j])
        /\ {AggregatedKey(aggregated.rows[i]) : i \in 1..Len(aggregated.rows)} = CleanedKeys

RowsOfKey(k) ==
    LET ingroup(i) == KeyOf(cleaned.rows[i]) = k
    IN  SelectIdx(cleaned.rows, ingroup, 1)

\* C12: num_transacciones of a group is the number of cleaned rows with the
\* group's key, cantidad_total the sum of their cantidad, and the
\* num_transacciones of all groups add up to the number of cleaned rows.
C12_CountsRows ==
    (Returned(cleaned) /\ Returned(aggregated)) =>
        /\ \A i \in 1..Len(aggregated.rows) :
              LET g == aggregated.rows[i]
                  members == RowsOfKey(AggregatedKey(g))
              IN  /\ g.num_transacciones = V(Len(members))
                  /\ g.cantidad_total = V(SumSeq(column_values(members, "cantidad")))
        /\ SumSeq([i \in 1..Len(aggregated.rows) |->
                      val(aggregated.rows[i].num_transacciones)])
             = Len(cleaned.rows)


----------------------------------------------------------------------------
(* Properties of the backup step of load() *)

\* The batch gets past validation and preparation, so that load() goes on
\* to the backup and the write.
GatePasses(d) ==
    /\ d # NONE
    /\ ~validate_data_before_load(d).raised
    /\ validate_data_before_load(d).value
    /\ ~prepare_data_for_load(d).raised

\* The load step replaced the content of the target table.
Replaced ==
    /\ IsLoadStep
    /\ \/ Last(loadLog') = "returned"
       \/ loadFault' = "stats" /\ GatePasses(transformedFile)

\* Neither the existence check nor the copy failed: no storage fault, and
\* no table has the name the backup is to get.
BackupDidNotFail ==
    /\ loadFault' \notin {"table_exists", "backup"}
    /\ ~\E b \in backups : b.name = clock

\* C13: when a load replaces an existing target table and its backup step
\* does not fail, that load has created a backup table that holds the rows
\* the target table had right before the replacement.
C13_BackupBeforeReplace ==
    [][(Replaced /\ target # NONE /\ BackupDidNotFail) =>
          \E b \in backups' \ backups :
              /\ b.name = clock
              /\ b.table.columns = target.columns
              /\ b.table.rows = target.rows]_vars

C13_Witness ==
    /\ loadLog # <<>>
    /\ Last(loadLog) = "returned"
    /\ loadFault = "none"
    /\ \E b \in backups : b.table = LoadedTarget /\ b.table.rows # target.rows

\* C14: every load that returns while the target table exists adds one
\* backup table to those there, whatever the time of the load.
C14_EveryLoadAddsBackup ==
    [][(/\ IsLoadStep
        /\ target # NONE
        /\ Last(loadLog') = "returned"
        /\ loadFault' = "none") =>
          Cardinality(backups') = Cardinality(backups) + 1]_vars

\* C15: a failure in the backup step, in the existence check or in the
\* copy, does not abort the load: the target table is replaced with the
\* prepared batch and statistics are returned.
C15_BackupFailureNeverAborts ==
    [][(/\ IsLoadStep
        /\ GatePasses(transformedFile)
        /\ loadFault' \in {"table_exists", "backup"}) =>
          /\ Last(loadLog') = "returned"
          /\ target' = prepare_data_for_load(transformedFile).frame
          /\ loadStats' # NONE]_vars

\* C19: a stage call that ends by raising has written or changed none of
\* the stage's outputs.
C19_NoPartialWrite ==
    [][/\ (IsLoadStep /\ Last(loadLog') = "raised") => target' = target
       /\ (IsExtractStep /\ Last(extractLog') = "raised") =>
              extractedFile' = extractedFile]_vars


----------------------------------------------------------------------------
(* Properties of the two validation gates *)

numeric_aggregated ==
    {"cantidad_total", "precio_promedio", "descuento_promedio", "total_venta",
     "num_transacciones"}

\* C16: validate_data_before_load returns False for a batch with a negative
\* value in one of the numeric columns of the aggregated record (checked on
\* the batches that have every required column).
C16_NegativeAnyNumericFails ==
    (/\ loadCheck # NONE
     /\ required_load \subseteq transformedFile.columns
     /\ \E c \in numeric_aggregated : HasNegative(transformedFile, c)) =>
        loadCheck = [raised |-> FALSE, value |-> FALSE]

\* C17: validate_extracted_data leaves the batch it is given as it was:
\* the same values of the same types in every column.
C17_ValidationLeavesBatch ==
    extractCheck # NONE => extractCheck.frame = source

HasJunk(d) ==
    \E c \in {"cantidad", "precio_unitario", "total_venta"} \cap d.columns :
        \E i \in 1..Len(d.rows) : d.rows[i][c] = Junk

\* C18: validate_extracted_data returns False for a batch in which
\* cantidad, precio_unitario or total_venta holds a value that is no number.
C18_NonNumericFails ==
    (extractCheck # NONE /\ HasJunk(source)) => ~extractCheck.value

\* The checks of validate_data_before_load other than the one on duplicate
\* keys, and the date conversion of the preparation.
OtherChecksPass(d) ==
    /\ d # NONE
    /\ Len(d.rows) > 0
    /\ required_load \subseteq d.columns
    /\ \A i \in 1..Len(d.rows) :
          /\ \A c \in critical_load : d.rows[i][c] # NaN
          /\ \A c \in checked_numeric : d.rows[i][c] = NaN \/ val(d.rows[i][c]) >= 0
          /\ d.rows[i]["fecha"] = NaN \/ val(d.rows[i]["fecha"]).fmt # "bad"

\* How many rows of the frame have the product, category and region of the
\* given row on its day.
SameKeyCount(d, r) ==
    Cardinality({i \in 1..Len(d.rows) :
                    /\ d.rows[i]["producto"] = r["producto"]
                    /\ d.rows[i]["categoria"] = r["categoria"]
                    /\ d.rows[i]["region"] = r["region"]
                    /\ val(d.rows[i]["fecha"]).day = val(r["fecha"]).day})

HasDuplicateKey(d) ==
    \E i \in 1..Len(d.rows) : SameKeyCount(d, d.rows[i]) > 1

\* C20: for a batch that passes the other checks, whatever the number of
\* rows that share a key, validate_data_before_load returns True, and a
\* load whose write meets no storage fault returns with every row of the
\* batch in the target table, rows of one key as many times as in the batch.
C20_DuplicateKeysNotFatal ==
    [][/\ (loadCheck' # NONE /\ OtherChecksPass(transformedFile)) =>
              loadCheck' = [raised |-> FALSE, value |-> TRUE]
       /\ (/\ IsLoadStep
           /\ OtherChecksPass(transformedFile)
           /\ loadFault' \in {"none", "backup"}) =>
              /\ Last(loadLog') = "returned"
              /\ Len(target'.rows) = Len(transformedFile.rows)
              /\ \A i \in 1..Len(transformedFile.rows) :
                    SameKeyCount(target', transformedFile.rows[i])
                       = SameKeyCount(transformedFile, transformedFile.rows[i])]_vars

C20_Witness ==
    /\ OtherChecksPass(transformedFile)
    /\ HasDuplicateKey(transformedFile)
    /\ transformedFile.rows[1] # transformedFile.rows[2]
    /\ loadCheck = [raised |-> FALSE, value |-> TRUE]
    /\ loadLog # <<>>
    /\ Last(loadLog) = "returned"
    /\ HasDuplicateKey(target)
    /\ Len(target.rows) = 2


----------------------------------------------------------------------------
(* Properties of the statistics of load() *)

\* The entries are at most 5, by descending sum, and entries of equal sums
\* stand in the order in which their groups first occur in the table.
TopOfTable(top, table, col) ==
    /\ Len(top) <= TopLimit
    /\ \A i \in 1..Len(top) : top[i].total = group_total(table, col, top[i].key)
    /\ \A i, j \in 1..Len(top) :
          i < j =>
             /\ top[i].total >= top[j].total
             /\ top[i].total = top[j].total =>
                   first_row(table, col, top[i].key) < first_row(table, col, top[j].key)

\* C21: the statistics load() returns are those of the target table as
\* that load committed it: total_records is the number of its rows, and
\* top_products and top_regions list at most 5 groups by descending summed
\* total_venta, equal sums in the order of first occurrence in the table.
C21_StatisticsOfCommittedTable ==
    loadStats # NONE =>
        /\ loadStats.total_records = Len(target.rows)
        /\ TopOfTable(loadStats.top_products, target, "producto")
        /\ TopOfTable(loadStats.top_regions, target, "region")


----------------------------------------------------------------------------
(* Backup tables over a sequence of loads *)

\* C24: whatever a load() call does and however it ends, every backup
\* table there before the call is there after it, under its name and with
\* the columns and rows it had.
C24_BackupsAppendOnly ==
    [][\A b \in backups : b \in backups']_vars

C24_Witness ==
    /\ Len(loadLog) = 2
    /\ Cardinality(backups) = 2
    /\ \E b \in backups : b.name = 0 /\ b.table = LoadedTarget
    /\ \E b \in backups : b.name = 1 /\ b.table # LoadedTarget


----------------------------------------------------------------------------
(* Properties of prepare_data_for_load *)

\* A row over the given columns with its fecha as a day, whatever the
\* format the date is written in.
Canon(r, cols) ==
    [c \in cols |-> IF c = "fecha" /\ notnull(r[c]) THEN V(val(r[c]).day) ELSE r[c]]

Occurrences(rows, x, cols) ==
    Cardinality({i \in 1..Len(rows) : Canon(rows[i], cols) = x})

\* C26: prepare_data_for_load returns the rows of its input, each as many
\* times as the input has it, without the columns 'Unnamed: 0' and 'index',
\* with fecha written YYYY-MM-DD and in non-decreasing order of fecha, and
\* the batch handed in is as it was.
C26_PreparedSorted ==
    [][(prepared = NONE /\ prepared' # NONE /\ ~prepared'.raised) =>
          LET in == transformedFile
              out == prepared'.frame
          IN  /\ transformedFile' = in
              /\ out.columns = in.columns \ {"Unnamed: 0", "index"}
              /\ Len(out.rows) = Len(in.rows)
              /\ \A i \in 1..Len(in.rows) :
                    Occurrences(out.rows, Canon(in.rows[i], out.columns), out.columns)
                      = Occurrences(in.rows, Canon(in.rows[i], out.columns), out.columns)
              /\ \A i \in 1..Len(out.rows) :
                    notnull(out.rows[i]["fecha"]) => val(out.rows[i]["fecha"]).fmt = "iso"
              /\ \A i, j \in 1..Len(out.rows) :
                    (i < j /\ notnull(out.rows[i]["fecha"]) /\ notnull(out.rows[j]["fecha"]))
                       => val(out.rows[i]["fecha"]).day <= val(out.rows[j]["fecha"]).day]_vars

C26_Witness ==
    /\ prepared # NONE
    /\ ~prepared.raised
    /\ Len(transformedFile.rows) = 2
    /\ transformedFile.rows[1]["fecha"] = V(Date("long", 2))
    /\ transformedFile.rows[2]["fecha"] = V(Date("long", 1))
    /\ prepared.frame.rows[1]["fecha"] = V(Date("iso", 1))
    /\ prepared.frame.rows[2]["fecha"] = V(Date("iso", 2))


----------------------------------------------------------------------------
(* Grouping of raw rows *)

\* A text without its leading and trailing blanks, in lower case.
Fold(s) == LET t == str_strip(s) IN [i \in 1..Len(t) |-> ToLower(t[i])]

\* Two cells that differ in letter case or outer blanks only.
EquivText(a, b) ==
    \/ isnull(a) /\ isnull(b)
    \/ notnull(a) /\ notnull(b) /\ Fold(val(a)) = Fold(val(b))

\* The same day and producto, categoria, region alike up to case and blanks.
EquivKey(r, g) ==
    /\ notnull(r["fecha"]) /\ notnull(g["fecha"])
    /\ val(r["fecha"]).day = val(g["fecha"]).day
    /\ \A c \in text_columns : EquivText(r[c], g[c])

\* The input row is among the rows clean_data returned.
SurvivesCleaning(i) ==
    /\ Survives(i)
    /\ \E k \in 1..Len(cleaned.rows) :
          /\ EquivKey(df.rows[i], cleaned.rows[k])
          /\ \A c \in df.columns \ ({"fecha", "descuento"} \cup text_columns) :
                cleaned.rows[k][c] = df.rows[i][c]

\* C25: every raw row that survives clean_data falls into exactly one row
\* of aggregate_data, the one with its day and its producto, categoria and
\* region up to letter case and outer blanks; so rows alike in that sense
\* share a row and rows that differ in one of the four fields do not.
C25_GroupsByNormalizedText ==
    (Returned(cleaned) /\ Returned(aggregated)) =>
        \A i \in 1..Len(df.rows) :
            SurvivesCleaning(i) =>
                Cardinality({k \in 1..Len(aggregated.rows) :
                                EquivKey(df.rows[i], aggregated.rows[k])}) = 1

\* The same for the rows with no null among producto, categoria, region.
C25_OnKeyedRows ==
    (Returned(cleaned) /\ Returned(aggregated)) =>
        \A i \in 1..Len(df.rows) :
            (SurvivesCleaning(i) /\ \A c \in text_columns : notnull(df.rows[i][c])) =>
                Cardinality({k \in 1..Len(aggregated.rows) :
                                EquivKey(df.rows[i], aggregated.rows[k])}) = 1


----------------------------------------------------------------------------
(* Properties of transform_data *)

\* The bucket of a total_venta in cents.
Bucket(t) ==
    IF t < 10000 THEN "Pequeña"
    ELSE IF t < 50000 THEN "Mediana"
    ELSE IF t < 100000 THEN "Grande"
    ELSE "Premium"

\* C27: transform_data returns one row per row of the cleaned batch, with
\* the fields of that row as they were, a categoria_venta that is the
\* bucket of its total_venta (below 100 Pequeña, below 500 Mediana, below
\* 1000 Grande, else Premium) and tiene_descuento true exactly when its
\* descuento is above 0.
C27_DerivedRows ==
    (Returned(cleaned) /\ Returned(derived)) =>
        /\ Len(derived.rows) = Len(cleaned.rows)
        /\ \A i \in 1..Len(derived.rows) :
              LET r == cleaned.rows[i]
                  o == derived.rows[i]
              IN  /\ \A c \in df.columns : o[c] = r[c]
                  /\ notnull(r["total_venta"])
                  /\ o["categoria_venta"] = V(Bucket(val(r["total_venta"])))
                  /\ o["tiene_descuento"] = V(val(r["descuento"]) > 0)

C27_Witness ==
    /\ Returned(cleaned)
    /\ Returned(derived)
    /\ Len(derived.rows) = 3
    /\ \E i \in 1..3 : /\ derived.rows[i]["total_venta"] = V(9999)
                       /\ derived.rows[i]["categoria_venta"] = V("Pequeña")
    /\ \E i \in 1..3 : /\ derived.rows[i]["total_venta"] = V(100000)
                       /\ derived.rows[i]["categoria_venta"] = V("Premium")
    /\ \E i \in 1..3 : /\ derived.rows[i]["tiene_descuento"] = V(TRUE)
                       /\ derived.rows[i]["categoria_venta"] = V("Mediana")


----------------------------------------------------------------------------
(* transform() and the DAG etl_sales_pipeline *)

TransformRaised(agg, full) ==
    [outcome |-> "raised", aggregated |-> agg, full |-> full, wrote |-> FALSE]

\* Step 5 of transform(): the aggregated batch is saved first, the
\* full-detail batch second.
save_transformed(file, t, a, agg, full, fault) ==
    IF t.raised \/ a.raised THEN TransformRaised(agg, full)
    ELSE IF fault = "save_full"
    THEN [outcome |-> "raised",
          aggregated |-> to_csv([columns |-> AggColumns, rows |-> a.rows]),
          full |-> full, wrote |-> TRUE]
    ELSE [outcome |-> "returned",
          aggregated |-> to_csv([columns |-> AggColumns, rows |-> a.rows]),
          full |-> to_csv([columns |-> file.columns \cup derived_columns,
                           rows |-> t.rows]),
          wrote |-> TRUE]

\* Steps 3 and 4 of transform() on the cleaned batch c.
transform_cleaned(file, c, agg, full, fault) ==
    IF c.raised THEN TransformRaised(agg, full)
    ELSE save_transformed(file,
                          transform_data([columns |-> file.columns, rows |-> c.rows]),
                          aggregate_data([columns |-> file.columns, rows |-> c.rows]),
                          agg, full, fault)

\* transform(): the outcome and the two artifacts after the call; wrote
\* tells whether transformed_data.csv was written.
transform(file, agg, full, fault) ==
    IF file = NONE THEN TransformRaised(agg, full)
    ELSE transform_cleaned(file, clean_data(file), agg, full, fault)

TransformFaults == {"none", "save_full"}

tasks == <<"start_pipeline", "extract_data", "transform_data", "load_data",
           "generate_report", "end_pipeline">>

TaskIds == {tasks[i] : i \in 1..Len(tasks)}

position(t) == CHOOSE i \in 1..Len(tasks) : tasks[i] = t

retries == 2

max_active_runs == 1

RunFinished(r) == \A t \in TaskIds : ti[r][t] \in {"success", "failed", "upstream_failed"}

ActiveRuns == {r \in 1..dagRuns : ~RunFinished(r)}

\* The same with no dependency between the tasks.
deps_met_none(r, t) == TRUE

\* The chain a >> b with the default trigger rule all_success.
deps_met(r, t) ==
    IF position(t) = 1 THEN TRUE ELSE ti[r][tasks[position(t) - 1]] = "success"

\* The same with one retry more.
Outcome_one_more(r, t, outcome) ==
    IF outcome = "returned" THEN "success"
    ELSE IF try_number[r][t] <= retries + 1 THEN "up_for_retry"
    ELSE "failed"

\* The state an attempt leaves its task instance in.
Outcome(r, t, outcome) ==
    IF outcome = "returned" THEN "success"
    ELSE IF try_number[r][t] <= retries THEN "up_for_retry"
    ELSE "failed"

\* A storage fault may strike while fewer than MaxFaults have.
MayFail(fault) == fault = "none" \/ faults < MaxFaults

Struck(fault) == IF fault = "none" THEN faults ELSE faults + 1

\* The same with no limit on the active runs.
CreateRun_concurrent ==
    /\ dagRuns < MaxRuns
    /\ dagRuns' = dagRuns + 1
    /\ ti' = Append(ti, [t \in TaskIds |-> "none"])
    /\ try_number' = Append(try_number, [t \in TaskIds |-> 0])
    /\ firstLoad' = Append(firstLoad, NONE)
    /\ UNCHANGED <<fullFile, extractedBy, transformedBy, faults, harnessVars,
                   extractVars, loadVars>>

\* The scheduler creates a run when fewer than max_active_runs are active.
CreateRun ==
    /\ dagRuns < MaxRuns
    /\ Cardinality(ActiveRuns) < max_active_runs
    /\ dagRuns' = dagRuns + 1
    /\ ti' = Append(ti, [t \in TaskIds |-> "none"])
    /\ try_number' = Append(try_number, [t \in TaskIds |-> 0])
    /\ firstLoad' = Append(firstLoad, NONE)
    /\ UNCHANGED <<fullFile, extractedBy, transformedBy, faults, harnessVars,
                   extractVars, loadVars>>

\* An attempt starts, at a later second than every attempt before it (a
\* retry waits retry_delay, five minutes).
StartTask(r, t) ==
    /\ r \in 1..dagRuns
    /\ ti[r][t] \in {"none", "up_for_retry"}
    /\ deps_met(r, t)
    /\ ti' = [ti EXCEPT ![r][t] = "running"]
    /\ try_number' = [try_number EXCEPT ![r][t] = @ + 1]
    /\ clock' = clock + 1
    /\ UNCHANGED <<fullFile, extractedBy, transformedBy, dagRuns, firstLoad, faults,
                   transformedFile, target, backups, loadLog, loadStats, loadCheck,
                   loadFault, prepared, harnessVars, extractVars>>

\* A task downstream of a failed one is never run.
MarkUpstreamFailed(r, t) ==
    /\ r \in 1..dagRuns
    /\ ti[r][t] = "none"
    /\ position(t) > 1
    /\ ti[r][tasks[position(t) - 1]] \in {"failed", "upstream_failed"}
    /\ ti' = [ti EXCEPT ![r][t] = "upstream_failed"]
    /\ UNCHANGED <<fullFile, extractedBy, transformedBy, dagRuns, try_number,
                   firstLoad, faults, harnessVars, extractVars, loadVars>>

\* start_pipeline and end_pipeline echo a line; generate_report logs what
\* the stages returned and swallows its own errors.
FinishEcho(r, t) ==
    /\ r \in 1..dagRuns
    /\ t \in {"start_pipeline", "generate_report", "end_pipeline"}
    /\ ti[r][t] = "running"
    /\ ti' = [ti EXCEPT ![r][t] = "success"]
    /\ UNCHANGED <<fullFile, extractedBy, transformedBy, dagRuns, try_number,
                   firstLoad, faults, harnessVars, extractVars, loadVars>>

FinishExtract(r) ==
    /\ r \in 1..dagRuns
    /\ ti[r]["extract_data"] = "running"
    /\ \E fault \in ExtractFaults :
          \E res \in {extract(source, extractedFile, fault)} :
              /\ MayFail(fault)
              /\ extractedFile' = res.file
              /\ extractedBy' = IF res.outcome = "returned" THEN r ELSE extractedBy
              /\ extractLog' = Append(extractLog, res.outcome)
              /\ ti' = [ti EXCEPT ![r]["extract_data"] =
                           Outcome(r, "extract_data", res.outcome)]
              /\ faults' = Struck(fault)
    /\ UNCHANGED <<fullFile, transformedBy, dagRuns, try_number, firstLoad, source,
                   extractCheck, harnessVars, loadVars>>

FinishTransform(r) ==
    /\ r \in 1..dagRuns
    /\ ti[r]["transform_data"] = "running"
    /\ \E fault \in TransformFaults :
          \E res \in {transform(extractedFile, transformedFile, fullFile, fault)} :
              /\ MayFail(fault)
              /\ transformedFile' = res.aggregated
              /\ fullFile' = res.full
              /\ transformedBy' = IF res.wrote THEN r ELSE transformedBy
              /\ ti' = [ti EXCEPT ![r]["transform_data"] =
                           Outcome(r, "transform_data", res.outcome)]
              /\ faults' = Struck(fault)
    /\ UNCHANGED <<extractedBy, dagRuns, try_number, firstLoad, target, backups, clock,
                   loadLog, loadStats, loadCheck, loadFault, prepared, harnessVars,
                   extractVars>>

FinishLoad(r) ==
    /\ r \in 1..dagRuns
    /\ ti[r]["load_data"] = "running"
    /\ \E fault \in LoadFaults : \E ties \in TiesUnder(fault) :
          \E res \in {load(transformedFile, target, backups, clock, fault, ties)} :
              /\ MayFail(fault)
              /\ target' = res.target
              /\ backups' = res.backups
              /\ loadStats' = res.stats
              /\ loadLog' = Append(loadLog, res.outcome)
              /\ loadFault' = fault
              /\ firstLoad' =
                    IF firstLoad[r] # NONE THEN firstLoad
                    ELSE [firstLoad EXCEPT ![r] =
                            [target |-> target, backed |-> res.backups # backups,
                             replaced |-> res.target # target, outcome |-> res.outcome]]
              /\ ti' = [ti EXCEPT ![r]["load_data"] = Outcome(r, "load_data", res.outcome)]
              /\ faults' = Struck(fault)
    /\ UNCHANGED <<fullFile, extractedBy, transformedBy, dagRuns, try_number,
                   transformedFile, clock, loadCheck, prepared, harnessVars, extractVars>>

\* The source table of a run: two good rows; one row that cleaning drops
\* (cantidad 0); one row with a date that cannot be parsed; a good row and
\* one with a null categoria.
DagSources ==
    {Frame(AllColumns, <<1, 6>>), Frame(AllColumns, <<9>>),
     [columns |-> AllColumns, rows |-> <<BadDateRow>>], Frame(AllColumns, <<1, 4>>)}

\* Artifacts left by an earlier run.
OldTransformed == AggFrame(AggColumns, "iso", <<2>>)

InitDag ==
    /\ IdleHarness
    /\ source \in DagSources
    /\ extractedFile \in {NONE, OldExtract}
    /\ extractLog = <<>>
    /\ extractCheck = NONE
    /\ transformedFile \in {NONE, OldTransformed}
    /\ target \in {NONE, LoadedTarget}
    /\ backups = {}
    /\ clock = 0
    /\ loadLog = <<>>
    /\ loadStats = NONE
    /\ loadCheck = NONE
    /\ loadFault = "none"
    /\ prepared = NONE
    /\ IdleDag

\* The runs the scheduler may create.
RunIds == 1..MaxRuns

NextDag ==
    \/ CreateRun
    \/ \E r \in RunIds, t \in TaskIds : StartTask(r, t)
    \/ \E r \in RunIds, t \in TaskIds : MarkUpstreamFailed(r, t)
    \/ \E r \in RunIds, t \in TaskIds : FinishEcho(r, t)
    \/ \E r \in RunIds : FinishExtract(r)
    \/ \E r \in RunIds : FinishTransform(r)
    \/ \E r \in RunIds : FinishLoad(r)

SpecDag == InitDag /\ [][NextDag]_vars


----------------------------------------------------------------------------
(* Properties of the orchestrated runs *)

StartStep(r, t) == ti[r][t] # "running" /\ ti'[r][t] = "running"

FinishStep(r, t) == ti[r][t] = "running" /\ ti'[r][t] # "running"

\* C22: in every run at most one task is executing, and a task has been
\* started only if the task before it in the chain start, extract,
\* transform, load, report, end has succeeded.
C22_StageSequencing ==
    \A r \in 1..dagRuns :
        /\ Cardinality({t \in TaskIds : ti[r][t] = "running"}) <= 1
        /\ \A i \in 2..Len(tasks) :
              try_number[r][tasks[i]] > 0 => ti[r][tasks[i - 1]] = "success"

C22_Witness ==
    \E r \in 1..dagRuns :
        /\ ti[r]["extract_data"] = "success"
        /\ ti[r]["transform_data"] = "success"
        /\ ti[r]["load_data"] = "running"
        /\ try_number[r]["load_data"] = 2

\* C23: a task is attempted at most 3 times in a run, it waits for a retry
\* only after fewer than 3 attempts, and once it has failed no task after
\* it in the chain is ever started.
C23_RetryBound ==
    \A r \in 1..dagRuns :
        \A i \in 1..Len(tasks) :
            /\ try_number[r][tasks[i]] <= 3
            /\ ti[r][tasks[i]] = "up_for_retry" => try_number[r][tasks[i]] < 3
            /\ ti[r][tasks[i]] = "failed" =>
                  /\ try_number[r][tasks[i]] = 3
                  /\ \A j \in (i + 1)..Len(tasks) :
                        /\ try_number[r][tasks[j]] = 0
                        /\ ti[r][tasks[j]] \in {"none", "upstream_failed"}

C23_Witness ==
    \E r \in 1..dagRuns :
        /\ ti[r]["extract_data"] = "failed"
        /\ try_number[r]["extract_data"] = 3
        /\ ti[r]["transform_data"] = "upstream_failed"
        /\ ti[r]["load_data"] = "upstream_failed"
        /\ RunFinished(r)

\* C28: when the first load attempt of a run has backed up the target
\* table, the rows the table held before that attempt are in a backup
\* table from then on, whatever the later attempts of the run do.
C28_PriorDataSurvivesRetries ==
    \A r \in 1..dagRuns :
        (firstLoad[r] # NONE /\ firstLoad[r].backed) =>
            \E b \in backups :
                /\ b.table.columns = firstLoad[r].target.columns
                /\ b.table.rows = firstLoad[r].target.rows

C28_Witness ==
    \E r \in 1..dagRuns :
        /\ firstLoad[r] # NONE
        /\ firstLoad[r].target = LoadedTarget
        /\ firstLoad[r].backed
        /\ firstLoad[r].replaced
        /\ firstLoad[r].outcome = "raised"
        /\ try_number[r]["load_data"] >= 2
        /\ ti[r]["load_data"] = "success"
        /\ RunFinished(r)
        /\ target # LoadedTarget

\* The extraction artifact has no row, or cleaning it leaves none.
ZeroRows(f) ==
    /\ f # NONE
    /\ \/ Len(f.rows) = 0
       \/ ~clean_data(f).raised /\ Len(clean_data(f).rows) = 0

\* C29: a transform attempt on an extraction artifact that has no row, or
\* that cleaning leaves without rows, raises with both transform artifacts
\* as they were, and load is not started in a run with such an artifact;
\* transform() on an artifact without rows raises and writes nothing.
C29_EmptyCleanedStopsRun ==
    [][\A r \in 1..dagRuns :
          /\ (FinishStep(r, "transform_data") /\ ZeroRows(extractedFile)) =>
                /\ transformedFile' = transformedFile
                /\ fullFile' = fullFile
                /\ ti'[r]["transform_data"] # "success"
          /\ StartStep(r, "load_data") => ~ZeroRows(extractedFile)
          /\ transform(Frame(AllColumns, <<>>), transformedFile, fullFile, "none")
                = TransformRaised(transformedFile, fullFile)]_vars

C29_Witness ==
    \E r \in 1..dagRuns :
        /\ extractedBy = r
        /\ ZeroRows(extractedFile)
        /\ Len(extractedFile.rows) = 1
        /\ ti[r]["transform_data"] = "failed"
        /\ try_number[r]["transform_data"] = 3
        /\ ti[r]["load_data"] = "upstream_failed"
        /\ transformedFile = OldTransformed
        /\ fullFile = NONE

\* C30: the extraction artifact a transform attempt reads was written by
\* the extract of its own run, and the aggregated artifact a load attempt
\* reads by the transform of its own run.
C30_RunLocalHandoff ==
    [][\A r \in 1..dagRuns :
          /\ FinishStep(r, "transform_data") => extractedBy = r
          /\ FinishStep(r, "load_data") => transformedBy = r]_vars

C30_Witness ==
    /\ dagRuns = 2
    /\ ti[1]["load_data"] = "success"
    /\ ti[2]["load_data"] = "success"
    /\ extractedBy = 2
    /\ transformedBy = 2

====
